---- MODULE Spec2Model ----
(***************************************************************************)
(* Model of pkg/ai: the AI rename service (rename.go) and its process-wide *)
(* instance (GetRenameService / InitRenameService).                        *)
(*                                                                         *)
(* A Go string is modelled as the sequence of its code points; each code   *)
(* point is a token ("a", "_", "U+6587", ...) and ByteWidth gives the      *)
(* length of its UTF-8 encoding, so that len(s) (bytes) and len([]rune(s)) *)
(* (code points) are different quantities, as in the program.              *)
(***************************************************************************)
EXTENDS Integers, Sequences, FiniteSets, TLC

\* ---------------------------------------------------------------- bounds
MaxAffix == 2      \* longest decoration put in front of a raw text
MaxPost  == 1      \* longest decoration put behind a raw text
MaxOver  == 1      \* how far the repeated body goes past the length limits

\* ------------------------------------------------------ program constants
FileMax   == 50    \* rename.go:249
FolderMax == 30    \* rename.go:274
StatusOK  == 200   \* rename.go:212 (http.StatusOK)

\* ------------------------------------------------------------ code points
CJK   == "U+6587"  \* a three-byte code point
NBSP  == "U+00A0"  \* white space for strings.TrimSpace, not for regexp \s
IDSP  == "U+3000"  \* ideographic space, likewise
NUL   == "U+0000"  \* the zero rune
BQ    == "U+0060"  \* the backtick

ByteWidth(c) ==
  CASE c = CJK  -> 3
    [] c = IDSP -> 3
    [] c = NBSP -> 2
    [] OTHER    -> 1

RECURSIVE ByteLen(_)
ByteLen(s) == IF s = <<>> THEN 0 ELSE ByteWidth(Head(s)) + ByteLen(Tail(s))

Rep(c, k) == [i \in 1..k |-> c]

\* strings.Trim(s, cutset)
Trim(s, cutset) ==
  LET keep == {i \in 1..Len(s) : s[i] \notin cutset}
  IN  IF keep = {} THEN <<>>
      ELSE LET lo == CHOOSE i \in keep : \A j \in keep : i <= j
               hi == CHOOSE i \in keep : \A j \in keep : j <= i
           IN  SubSeq(s, lo, hi)

\* strings.HasSuffix / strings.TrimSuffix
HasSuffix(s, suf) ==
  /\ Len(suf) <= Len(s)
  /\ SubSeq(s, Len(s) - Len(suf) + 1, Len(s)) = suf

TrimSuffix(s, suf) ==
  IF HasSuffix(s, suf) THEN SubSeq(s, 1, Len(s) - Len(suf)) ELSE s

\* unicode.IsSpace, as used by strings.TrimSpace
UnicodeSpace == {"\t", "\n", "U+000B", "\f", "\r", " ", "U+0085", NBSP, IDSP}
TrimSpace(s) == Trim(s, UnicodeSpace)

\* the cutset of strings.Trim in the sanitizers: double quote, single quote, backtick
QuoteCutset == {"\"", "'", BQ}

\* the character class of the invalidChars regexp
InvalidChars == {"<", ">", ":", "\"", "/", "\\", "|", "?", "*"}

\* the character class of the multiSpace regexp: s (ASCII white space) or underscore
SpaceOrUnderscore == {"\t", "\n", "\f", "\r", " ", "_"}

ReplaceInvalid(s) ==
  [i \in 1..Len(s) |-> IF s[i] \in InvalidChars THEN "_" ELSE s[i]]

CollapseRuns(s) ==
  LET idx  == [i \in 1..Len(s) |-> i]
      kept == SelectSeq(idx, LAMBDA i : \/ s[i] \notin SpaceOrUnderscore
                                        \/ i = 1
                                        \/ s[i-1] \notin SpaceOrUnderscore)
  IN  [j \in 1..Len(kept) |->
         IF s[kept[j]] \in SpaceOrUnderscore THEN "_" ELSE s[kept[j]]]

\* if len(name) > max { runes := []rune(name); name = string(runes[:max]) }
\* len(name) counts bytes.  When the name has more than max bytes but fewer
\* than max code points, runes[:max] slices past len(runes): Go panics when
\* max > cap(runes) and otherwise yields the zeroed spare capacity; the
\* capacity of a converted slice is not defined by the language, so
\* spareCap (does cap(runes) reach max?) is an input.
LimitLength(name, max, spareCap) ==
  IF ByteLen(name) > max
  THEN IF Len(name) >= max
       THEN [panic |-> FALSE, name |-> SubSeq(name, 1, max)]
       ELSE IF spareCap
            THEN [panic |-> FALSE, name |-> name \o Rep(NUL, max - Len(name))]
            ELSE [panic |-> TRUE, name |-> <<>>]
  ELSE [panic |-> FALSE, name |-> name]

\* the sanitizers up to "Limit length": trim quotes, trim space, replace the
\* invalid characters, collapse the runs, trim underscores
stripAndCollapse(name) ==
  LET n1 == Trim(name, QuoteCutset)
      n2 == TrimSpace(n1)
      n3 == ReplaceInvalid(n2)
      n4 == CollapseRuns(n3)
  IN  Trim(n4, {"_"})

sanitize(name, max, spareCap) == LimitLength(stripAndCollapse(name), max, spareCap)

cleanFileName(name, spareCap)   == sanitize(name, FileMax, spareCap)
cleanFolderName(name, spareCap) == sanitize(name, FolderMax, spareCap)

\* filepath.Ext: the suffix starting at the last dot of the last path element
Ext(path) ==
  LET stop == {i \in 1..Len(path) : path[i] \in {".", "/"}}
  IN  IF stop = {} THEN <<>>
      ELSE LET last == CHOOSE i \in stop : \A j \in stop : j <= i
           IN  IF path[last] = "." THEN SubSeq(path, last, Len(path)) ELSE <<>>

\* --------------------------------------------------------------- inputs
AffixChars == {"_", "'", " ", "/"}
Units      == {"a", CJK}

RECURSIVE SeqsUpTo(_, _)
SeqsUpTo(S, n) ==
  IF n = 0 THEN {<<>>}
  ELSE LET shorter == SeqsUpTo(S, n - 1)
       IN  shorter \cup {Append(s, c) : s \in shorter, c \in S}

\* lengths of the repeated body: short ones, and the ones around both limits
RepCounts == {0, 1, 11, 20} \cup (FolderMax .. FolderMax + MaxOver)
                            \cup (FileMax - 1 .. FileMax + MaxOver)

RawTexts ==
  {pre \o Rep(u, k) \o post :
     pre \in SeqsUpTo(AffixChars, MaxAffix), post \in SeqsUpTo(AffixChars, MaxPost),
     u \in Units, k \in RepCounts}

\* what the model's chat endpoint may put in choices[i].message.content
Candidates ==
  {pre \o Rep(u, k) \o post :
     pre \in SeqsUpTo(AffixChars, MaxPost),
     post \in {<<>>, <<"_">>, <<" ">>, <<".", "t">>},
     u \in Units, k \in {0, 1, 20, FileMax + MaxOver}}

Names == {<<>>, <<"n">>, <<"n", ".", "t">>, <<".", "t">>,
          <<"d", ".", "x", "/", "n">>, <<"n", ".", "a", ".", "t">>}
Messages == {<<>>, <<"m">>}

\* config.AIRename, the fields that decide the control flow
Configs ==
  [Enable : BOOLEAN, Endpoint : {"valid", "invalid"},
   Prompt : {"", "custom"}, Temperature : {"finite", "NaN"}]

Statuses == {StatusOK, 201, 404, 500}
NoBody   == [valid |-> FALSE, error |-> FALSE, choices |-> <<>>]
SmallBodies ==
  {NoBody} \cup
  [valid : {TRUE}, error : BOOLEAN,
   choices : {<<>>, << <<"a">> >>, << <<" ", "a", " ">>, <<"b">> >>}]
Responses ==
  {[transport |-> "sendError", status |-> 0, body |-> NoBody]}
  \cup [transport : {"readError"}, status : Statuses, body : {NoBody}]
  \cup [transport : {"ok"}, status : Statuses, body : SmallBodies]
  \cup {[transport |-> "ok", status |-> StatusOK,
         body |-> [valid |-> TRUE, error |-> FALSE, choices |-> <<c>>]] :
          c \in Candidates}
NoResponse == [transport |-> "none", status |-> 0, body |-> NoBody]

\* ------------------------------------------------------------- the service
NoError == "nil"

buildPrompt(cfg, messageText, originalBaseName) ==
  [template |-> IF cfg.Prompt = "" THEN "defaultFilePrompt" ELSE cfg.Prompt,
   args |-> <<messageText, originalBaseName>>]

buildFolderPrompt(cfg, messageText, defaultName) ==
  [template |-> IF cfg.Prompt = "" THEN "defaultFolderPrompt" ELSE cfg.Prompt,
   args |-> <<messageText, defaultName>>]

\* mutants of StatusFails: the status is never checked; every 2xx is accepted
StatusFails_Never(status)  == FALSE
StatusFails_Non2xx(status) == status \notin 200..299

\* resp.StatusCode != http.StatusOK
StatusFails(status) == status # StatusOK

\* callAI: the result (string, error) and whether client.Do was reached
callAI(cfg, prompt, resp) ==
  LET fail(e, sent) == [val |-> <<>>, err |-> e, sent |-> sent]
  IN  IF cfg.Temperature = "NaN"          THEN fail("marshal request", FALSE)
      ELSE IF cfg.Endpoint = "invalid"    THEN fail("create request", FALSE)
      ELSE IF resp.transport = "sendError" THEN fail("send request", TRUE)
      ELSE IF resp.transport = "readError" THEN fail("read response", TRUE)
      ELSE IF StatusFails(resp.status)    THEN fail("API error: status", TRUE)
      ELSE IF ~resp.body.valid            THEN fail("unmarshal response", TRUE)
      ELSE IF resp.body.error             THEN fail("API error: message", TRUE)
      ELSE IF Len(resp.body.choices) = 0  THEN fail("no choices in response", TRUE)
      ELSE [val |-> TrimSpace(resp.body.choices[1]), err |-> NoError, sent |-> TRUE]

\* mutant of EnsureExt: the extension is appended unconditionally
EnsureExt_Always(name, ext) == name \o ext

\* if !strings.HasSuffix(cleanName, ext) { cleanName += ext }
EnsureExt(name, ext) == IF HasSuffix(name, ext) THEN name ELSE name \o ext

Returned(name, err, ai, clean) ==
  [panic |-> FALSE, name |-> name, err |-> err, sent |-> ai.sent,
   newName |-> ai.val, cleanName |-> clean]
Panicked(ai) ==
  [panic |-> TRUE, name |-> <<>>, err |-> NoError, sent |-> ai.sent,
   newName |-> ai.val, cleanName |-> <<>>]
NoCall == [val |-> <<>>, err |-> NoError, sent |-> FALSE]

\* mutant of passThrough: the empty message is not short-circuited
passThrough_NoEmptyCheck(cfg, messageText) == ~cfg.Enable

\* if !s.config.Enable { return ... }; if messageText == "" { return ... }
passThrough(cfg, messageText) == ~cfg.Enable \/ messageText = <<>>

\* mutant of emptyResult: the empty candidate is not detected
emptyResult_Never(clean) == FALSE

\* if cleanName == "" { return originalFileName, nil }
emptyResult(clean) == clean = <<>>

GenerateFileNameResult(cfg, messageText, originalFileName, resp, spareCap) ==
  IF passThrough(cfg, messageText)
  THEN Returned(originalFileName, NoError, NoCall, <<>>)
  ELSE
    LET ext      == Ext(originalFileName)
        baseName == TrimSuffix(originalFileName, ext)
        prompt   == buildPrompt(cfg, messageText, baseName)
        ai       == callAI(cfg, prompt, resp)
        clean    == cleanFileName(ai.val, spareCap)
    IN  IF ai.err # NoError THEN Returned(originalFileName, ai.err, ai, <<>>)
        ELSE IF clean.panic THEN Panicked(ai)
        ELSE IF emptyResult(clean.name)
             THEN Returned(originalFileName, NoError, ai, clean.name)
        ELSE Returned(EnsureExt(clean.name, ext), NoError, ai, clean.name)

GenerateFolderNameResult(cfg, messageText, defaultName, resp, spareCap) ==
  IF passThrough(cfg, messageText)
  THEN Returned(defaultName, NoError, NoCall, <<>>)
  ELSE
    LET prompt == buildFolderPrompt(cfg, messageText, defaultName)
        ai     == callAI(cfg, prompt, resp)
        clean  == cleanFolderName(ai.val, spareCap)
    IN  IF ai.err # NoError THEN Returned(defaultName, ai.err, ai, <<>>)
        ELSE IF clean.panic THEN Panicked(ai)
        ELSE IF emptyResult(clean.name)
             THEN Returned(defaultName, NoError, ai, clean.name)
        ELSE Returned(clean.name, NoError, ai, clean.name)

\* ------------------------------------------------------------------ state
VARIABLES
  \* one call of the rename service
  config,        \* RenameService.config, read-only after NewRenameService
  pc,            \* "idle", "done" (the call returned) or "panic"
  fn,            \* which method was called: "file" or "folder"
  messageText,   \* its arguments
  originalName,
  response,      \* what the endpoint answered, NoResponse when never asked
  httpRequests,  \* client.Do calls made by the call
  newName,       \* locals of the call
  cleanName,
  retName,       \* its results
  retErr,
  \* the sanitizers applied on their own
  raw,           \* the text given to the sanitizer
  which,         \* "file" (cleanFileName) or "folder" (cleanFolderName)
  stage,         \* "input", "once", "twice" or "panic"
  out1,          \* sanitizer(raw)
  out2,          \* sanitizer(out1)
  \* the process-wide instance
  services,      \* the RenameService objects built so far, by address 1, 2, ...
  renameService, \* the package variable: 0 (nil) or an address
  writes,        \* every value stored to renameService, in order
  onceDone,      \* sync.Once: f has returned
  onceOwner,     \* sync.Once: the goroutine inside the slow path, 0 if none
  onceSeen,      \* the writes visible to whoever passes a completed once.Do
  gpc,           \* per goroutine: "idle", "once", "f", "exit" or "read"
  seen,          \* per goroutine: the last write known to happen before its next step
  got,           \* per goroutine: what its last GetRenameService returned (0: none yet)
  mustSee,       \* per goroutine: the instance InitRenameService had installed
                 \* when its current GetRenameService call began (0: none)
  lazyBuilt,     \* executions of the function passed to once.Do
  lastInit,      \* the instance installed by the latest InitRenameService (0: none)
  ops            \* calls started so far

genVars   == <<config, pc, fn, messageText, originalName, response,
               httpRequests, newName, cleanName, retName, retErr>>
cleanVars == <<raw, which, stage, out1, out2>>
svcVars   == <<services, renameService, writes, onceDone, onceOwner, onceSeen,
               gpc, seen, got, mustSee, lazyBuilt, lastInit, ops>>
vars == <<genVars, cleanVars, svcVars>>

NumProcs == 2      \* goroutines calling into the package
MaxOps   == 3      \* calls of GetRenameService / InitRenameService in a run
Procs == 1..NumProcs

GlobalCfg    == "config.Cfg.AIRename"
InjectedCfgs == {"cfgA", "cfgB"}

GenIdle ==
  /\ pc = "idle" /\ fn = "none"
  /\ messageText = <<>> /\ originalName = <<>>
  /\ response = NoResponse /\ httpRequests = 0
  /\ newName = <<>> /\ cleanName = <<>>
  /\ retName = <<>> /\ retErr = NoError

CleanIdle ==
  /\ raw = <<>> /\ which = "none" /\ stage = "none"
  /\ out1 = <<>> /\ out2 = <<>>

SvcIdle ==
  /\ services = <<>> /\ renameService = 0 /\ writes = <<>>
  /\ onceDone = FALSE /\ onceOwner = 0 /\ onceSeen = 0
  /\ gpc = [p \in Procs |-> "idle"]
  /\ seen = [p \in Procs |-> 0]
  /\ got = [p \in Procs |-> 0]
  /\ mustSee = [p \in Procs |-> 0]
  /\ lazyBuilt = 0 /\ lastInit = 0 /\ ops = 0

DefaultConfig ==
  [Enable |-> FALSE, Endpoint |-> "valid", Prompt |-> "", Temperature |-> "finite"]

\* ------------------------------------------------- Spec: the Generate calls
Init == config \in Configs /\ GenIdle /\ CleanIdle /\ SvcIdle

Finish(f, msg, name, resp, r) ==
  /\ fn' = f
  /\ messageText' = msg
  /\ originalName' = name
  /\ response' = IF r.sent THEN resp ELSE NoResponse
  /\ httpRequests' = IF r.sent THEN 1 ELSE 0
  /\ newName' = r.newName
  /\ cleanName' = r.cleanName
  /\ retName' = r.name
  /\ retErr' = r.err
  /\ pc' = IF r.panic THEN "panic" ELSE "done"
  /\ UNCHANGED <<config, cleanVars, svcVars>>

GenerateFileName ==
  /\ pc = "idle"
  /\ \E msg \in Messages, name \in Names, resp \in Responses, spareCap \in BOOLEAN :
       Finish("file", msg, name, resp,
              GenerateFileNameResult(config, msg, name, resp, spareCap))

GenerateFolderName ==
  /\ pc = "idle"
  /\ \E msg \in Messages, name \in Names, resp \in Responses, spareCap \in BOOLEAN :
       Finish("folder", msg, name, resp,
              GenerateFolderNameResult(config, msg, name, resp, spareCap))

\* the caller takes the result (or the panic unwinds) and the service is
\* ready for the next call
NextCall ==
  /\ pc # "idle"
  /\ pc' = "idle" /\ fn' = "none"
  /\ messageText' = <<>> /\ originalName' = <<>>
  /\ response' = NoResponse /\ httpRequests' = 0
  /\ newName' = <<>> /\ cleanName' = <<>>
  /\ retName' = <<>> /\ retErr' = NoError
  /\ UNCHANGED <<config, cleanVars, svcVars>>

Next == GenerateFileName \/ GenerateFolderName \/ NextCall

Spec == Init /\ [][Next]_vars

\* ------------------------------------------- CleanSpec: the sanitizers alone
Clean(w, name, spareCap) ==
  IF w = "file" THEN cleanFileName(name, spareCap) ELSE cleanFolderName(name, spareCap)

MaxOf(w) == IF w = "file" THEN FileMax ELSE FolderMax

CleanInit ==
  /\ raw \in RawTexts /\ which \in {"file", "folder"}
  /\ stage = "input" /\ out1 = <<>> /\ out2 = <<>>
  /\ config = DefaultConfig /\ GenIdle /\ SvcIdle

Sanitize ==
  /\ stage = "input"
  /\ \E spareCap \in BOOLEAN :
       LET r == Clean(which, raw, spareCap)
       IN  /\ stage' = IF r.panic THEN "panic" ELSE "once"
           /\ out1' = r.name
  /\ UNCHANGED <<raw, which, out2, genVars, svcVars>>

SanitizeAgain ==
  /\ stage = "once"
  /\ \E spareCap \in BOOLEAN :
       LET r == Clean(which, out1, spareCap)
       IN  /\ stage' = IF r.panic THEN "panic" ELSE "twice"
           /\ out2' = r.name
  /\ UNCHANGED <<raw, which, out1, genVars, svcVars>>

CleanNext == Sanitize \/ SanitizeAgain

CleanSpec == CleanInit /\ [][CleanNext]_vars

\* ------------------------- SvcSpec: GetRenameService and InitRenameService
\* A goroutine makes its calls one after the other; goroutines interleave.
\* renameService is a plain package variable: InitRenameService stores to it
\* with no synchronisation, so a read in another goroutine races with that
\* store and may observe any write not ordered before the last one the
\* reader is known to have seen.  sync.Once orders the return of f before
\* the return of every once.Do.

\* NewRenameService(cfg): the object built, as far as identity matters
NewRenameService(cfg) == [config |-> cfg]

ValueAt(i) == IF i = 0 THEN 0 ELSE writes[i]
Later(a, b) == IF a >= b THEN a ELSE b

SvcInit == config = DefaultConfig /\ GenIdle /\ CleanIdle /\ SvcIdle

\* GetRenameService is called
GetEnter(p) ==
  /\ gpc[p] = "idle" /\ ops < MaxOps
  /\ gpc' = [gpc EXCEPT ![p] = "once"]
  /\ mustSee' = [mustSee EXCEPT ![p] = lastInit]
  /\ ops' = ops + 1
  /\ UNCHANGED <<services, renameService, writes, onceDone, onceOwner, onceSeen,
                 seen, got, lazyBuilt, lastInit, genVars, cleanVars>>

\* mutant of onceMayRun: a check of the done flag alone, without the mutex
onceMayRun_NoMutex(p) == ~onceDone

\* once.Do may start f: f has not returned and no goroutine is running it
onceMayRun(p) == ~onceDone /\ onceOwner = 0

\* once.Do(f), f already done: return at once
OnceSkip(p) ==
  /\ gpc[p] = "once" /\ onceDone
  /\ gpc' = [gpc EXCEPT ![p] = "read"]
  /\ seen' = [seen EXCEPT ![p] = Later(seen[p], onceSeen)]
  /\ UNCHANGED <<services, renameService, writes, onceDone, onceOwner, onceSeen,
                 got, mustSee, lazyBuilt, lastInit, ops, genVars, cleanVars>>

\* once.Do(f), first caller: take the slow path (the others wait)
OnceBegin(p) ==
  /\ gpc[p] = "once" /\ onceMayRun(p)
  /\ onceOwner' = p
  /\ gpc' = [gpc EXCEPT ![p] = "f"]
  /\ UNCHANGED <<services, renameService, writes, onceDone, onceSeen, seen, got,
                 mustSee, lazyBuilt, lastInit, ops, genVars, cleanVars>>

\* f: renameService = NewRenameService(&config.Cfg.AIRename)
OnceF(p) ==
  /\ gpc[p] = "f"
  /\ services' = Append(services, NewRenameService(GlobalCfg))
  /\ renameService' = Len(services) + 1
  /\ writes' = Append(writes, Len(services) + 1)
  /\ seen' = [seen EXCEPT ![p] = Len(writes) + 1]
  /\ lazyBuilt' = lazyBuilt + 1
  /\ gpc' = [gpc EXCEPT ![p] = "exit"]
  /\ UNCHANGED <<onceDone, onceOwner, onceSeen, got, mustSee, lastInit, ops,
                 genVars, cleanVars>>

\* once.Do: f returned; mark done and release
OnceEnd(p) ==
  /\ gpc[p] = "exit"
  /\ onceDone' = TRUE
  /\ onceOwner' = 0
  /\ onceSeen' = seen[p]
  /\ gpc' = [gpc EXCEPT ![p] = "read"]
  /\ UNCHANGED <<services, renameService, writes, seen, got, mustSee, lazyBuilt,
                 lastInit, ops, genVars, cleanVars>>

\* return renameService
GetReturn(p) ==
  /\ gpc[p] = "read"
  /\ \E i \in seen[p]..Len(writes) :
       /\ got' = [got EXCEPT ![p] = ValueAt(i)]
       /\ seen' = [seen EXCEPT ![p] = i]
  /\ gpc' = [gpc EXCEPT ![p] = "idle"]
  /\ UNCHANGED <<services, renameService, writes, onceDone, onceOwner, onceSeen,
                 mustSee, lazyBuilt, lastInit, ops, genVars, cleanVars>>

\* InitRenameService(cfg): renameService = NewRenameService(cfg)
InitRenameService(p, cfg) ==
  /\ gpc[p] = "idle" /\ ops < MaxOps
  /\ services' = Append(services, NewRenameService(cfg))
  /\ renameService' = Len(services) + 1
  /\ writes' = Append(writes, Len(services) + 1)
  /\ seen' = [seen EXCEPT ![p] = Len(writes) + 1]
  /\ lastInit' = Len(services) + 1
  /\ ops' = ops + 1
  /\ UNCHANGED <<onceDone, onceOwner, onceSeen, gpc, got, mustSee, lazyBuilt,
                 genVars, cleanVars>>

SvcNext ==
  \E p \in Procs :
    \/ GetEnter(p)
    \/ OnceSkip(p)
    \/ OnceBegin(p)
    \/ OnceF(p)
    \/ OnceEnd(p)
    \/ GetReturn(p)
    \/ \E cfg \in InjectedCfgs : InitRenameService(p, cfg)

SvcSpec == SvcInit /\ [][SvcNext]_vars

\* ================================================================ claims
NotesTxt == <<"n", ".", "t">>

\* the remote call got an answer, and the answer is the success callAI reads:
\* status 200, a body that parses, no error object, at least one choice
Answered  == pc # "idle" /\ httpRequests = 1
GoodAnswer(r) ==
  /\ r.transport = "ok" /\ r.status = StatusOK
  /\ r.body.valid /\ ~r.body.error /\ r.body.choices # <<>>

\* the failures the spec lists: transport error, non-2xx status, malformed
\* JSON body, explicit API error object, empty choices list
FailingResponse(r) ==
  \/ r.transport \in {"sendError", "readError"}
  \/ r.status \notin 200..299
  \/ ~r.body.valid
  \/ r.body.error
  \/ r.body.choices = <<>>

\* C1: with the configuration enabled and a non-empty messageText, a failed
\* remote call makes Generate* return the original/default name unmodified
\* together with a non-nil error; an error never comes with a modified name.
C1_FailureReturnsOriginal ==
  /\ (Answered /\ config.Enable /\ messageText # <<>> /\ FailingResponse(response))
       => (pc = "done" /\ retName = originalName /\ retErr # NoError)
  /\ (pc # "idle" /\ retErr # NoError) => (pc = "done" /\ retName = originalName)

C1_Witness ==
  /\ pc = "done" /\ fn = "file" /\ originalName = NotesTxt
  /\ response.transport = "ok" /\ response.status = StatusOK
  /\ response.body.valid /\ ~response.body.error /\ response.body.choices = <<>>
  /\ retName = NotesTxt /\ retErr = "no choices in response"

\* C2: with the configuration disabled (whatever its other fields) or an
\* empty messageText, Generate* returns the original/default name unchanged
\* with a nil error, and no HTTP request is issued.
C2_PassThrough ==
  (pc # "idle" /\ (~config.Enable \/ messageText = <<>>))
    => /\ pc = "done"
       /\ retName = originalName /\ retErr = NoError
       /\ httpRequests = 0 /\ response = NoResponse

C2_Witness ==
  /\ pc = "done" /\ fn = "folder"
  /\ ~config.Enable /\ config.Endpoint = "invalid" /\ config.Temperature = "NaN"
  /\ messageText # <<>> /\ originalName = NotesTxt
  /\ retName = NotesTxt /\ retErr = NoError /\ httpRequests = 0

\* C3: the function passed to once.Do runs at most once under every
\* interleaving; and in a run made of GetRenameService calls only (no
\* InitRenameService), one RenameService exists, built from the global
\* configuration, and every call, concurrent or later, returns it.
C3_SingleInitialization ==
  /\ lazyBuilt <= 1
  /\ lastInit = 0 =>
       /\ Len(services) <= 1
       /\ \A p \in Procs :
            got[p] # 0 => (got[p] = 1 /\ services[1] = NewRenameService(GlobalCfg))

\* two first-use calls were in flight together, and a later call was made
C3_Witness ==
  /\ lastInit = 0 /\ lazyBuilt = 1 /\ Len(services) = 1
  /\ got[1] = 1 /\ gpc[1] = "read" /\ gpc[2] = "read"
  /\ ops >= 3

\* C4 (as claimed): the sanitizer never panics and returns the cleaned text
\* itself when that has at most max code points, and otherwise exactly its
\* first max code points.
C4_TruncatesByCodePoints ==
  /\ stage # "panic"
  /\ stage \in {"once", "twice"} =>
       LET c == stripAndCollapse(raw)
       IN  out1 = IF Len(c) <= MaxOf(which) THEN c ELSE SubSeq(c, 1, MaxOf(which))

\* C5 (as claimed): the sanitizer is idempotent, clean(clean(x)) = clean(x).
C5_Idempotent == stage = "twice" => out2 = out1

\* the error callAI is to return for an answer r, the failure checks taken in
\* the order of the code, with okStatus the set of accepted status codes and
\* parseChecked telling whether a body that does not parse is a failure of
\* its own
Classified(r, okStatus, parseChecked) ==
  IF r.transport = "sendError" THEN "send request"
  ELSE IF r.transport = "readError" THEN "read response"
  ELSE IF r.status \notin okStatus THEN "API error: status"
  ELSE IF parseChecked /\ ~r.body.valid THEN "unmarshal response"
  ELSE IF r.body.error THEN "API error: message"
  ELSE IF r.body.choices = <<>> THEN "no choices in response"
  ELSE NoError

\* C6 (amended): the outcome is classified in the order transport/IO error,
\* status code other than 200, body that is not valid JSON, error field
\* present, empty choices; the first match decides the error; the call
\* succeeds exactly when none matches, and the candidate is then
\* choices[0].message.content trimmed of surrounding white space.
C6_Classification ==
  Answered =>
    /\ retErr = Classified(response, {StatusOK}, TRUE)
    /\ retErr = NoError <=> GoodAnswer(response)
    /\ retErr = NoError => newName = TrimSpace(response.body.choices[1])

C6_Witness ==
  /\ pc = "done" /\ response.transport = "ok" /\ response.status = 201
  /\ response.body.valid /\ ~response.body.error /\ response.body.choices # <<>>
  /\ retErr = "API error: status" /\ retName = originalName

\* C6 (as claimed): the checks are transport/IO error, non-2xx status, error
\* field, empty choices, and every 2xx answer with no error field and at
\* least one choice is a success.  (A body that does not parse is let pass
\* as the failure it is, so that only the claim's own words are tested.)
C6_AsClaimed ==
  Answered =>
    /\ retErr \in {Classified(response, 200..299, FALSE),
                   Classified(response, 200..299, TRUE)}
    /\ (/\ response.transport = "ok" /\ response.status \in 200..299
        /\ response.body.valid /\ ~response.body.error
        /\ response.body.choices # <<>>) => retErr = NoError

\* C7: after a successful call with a non-empty sanitized candidate,
\* GenerateFileName returns the candidate unchanged when it ends with the
\* original extension and otherwise with that extension appended, nil error,
\* so the result always ends with the original extension; GenerateFolderName
\* returns the sanitized candidate with nothing appended.
C7_ExtensionPreserved ==
  (pc = "done" /\ httpRequests = 1 /\ GoodAnswer(response) /\ cleanName # <<>>)
    => /\ retErr = NoError
       /\ \E spareCap \in BOOLEAN :
            cleanName = Clean(fn, TrimSpace(response.body.choices[1]), spareCap).name
       /\ IF fn = "file"
          THEN LET ext == Ext(originalName)
               IN  /\ HasSuffix(retName, ext)
                   /\ HasSuffix(cleanName, ext) => retName = cleanName
                   /\ ~HasSuffix(cleanName, ext) => retName = cleanName \o ext
          ELSE retName = cleanName

\* candidate "a", original "n.t": the result is "a.t"
C7_Witness ==
  /\ pc = "done" /\ fn = "file" /\ originalName = NotesTxt
  /\ cleanName = <<"a">> /\ retName = <<"a", ".", "t">> /\ retErr = NoError

C9_AlwaysNonEmpty ==
  (pc # "idle" /\ originalName # <<>>) => (pc = "done" /\ retName # <<>>)

\* C10 (as claimed): a GetRenameService call that begins after an
\* InitRenameService(cfg) has completed returns an instance built from an
\* injected configuration, never one built from the global configuration.
C10_InjectionKept ==
  \A p \in Procs :
    (gpc[p] = "idle" /\ got[p] # 0 /\ mustSee[p] # 0)
      => services[got[p]].config \in InjectedCfgs
====
